---- MODULE Spec2Model ----
(***************************************************************************)
(* A model of the Google Drive -> Telegram relay bot:                      *)
(*   auth_manager.py  the credential store (save / load / delete)          *)
(*   file_manager.py  download_gdrive_file and upload_to_telegram          *)
(*   main.py          the handlers, handle_message above all               *)
(*                                                                         *)
(* Eight specifications share the variables:                               *)
(*   SpecStore   the credential store's functions called directly, with a *)
(*               clock, so that token expiry is observable;                *)
(*   SpecEngine  download_gdrive_file / upload_to_telegram called directly *)
(*               by concurrent callers on the shared scratch directory;    *)
(*   Spec        the message handlers of main.py as concurrent tasks;      *)
(*   SpecJob     one handler task at a time, over every listing;           *)
(*   SpecEnum    get_drive_items_from_link over small Drives;              *)
(*   SpecLink    one handler task at a time, its links resolved by         *)
(*               get_drive_items_from_link in a Drive;                     *)
(*   SpecChunks  the chunk loop of download_gdrive_file, chunk by chunk,   *)
(*               with its progress callback;                               *)
(*   SpecNames   the scratch path of download_gdrive_file over names.      *)
(*                                                                         *)
(* The handlers are tasks of one event loop that may be started while      *)
(* another is suspended in an await, which is what the lock of             *)
(* handle_message provides for. (An Application built without              *)
(* concurrent_updates, as in main(), awaits each handler before it takes   *)
(* the next update: its behaviours are those of Spec in which no two       *)
(* tasks are alive at once.)                                               *)
(***************************************************************************)
EXTENDS Integers, Sequences, FiniteSets, TLC

\* ------------------------------------------------------------------ bounds

\* The clock runs over 0..MaxTime.
MaxTime == 2

\* The handler tasks (or direct callers of the transfer engine) alive at once.
MaxTasks == 2

\* The longest list of files an enumeration returns.
MaxFiles == 2

\* The nodes below the root folder of a generated Drive.
MaxNodes == 3

\* The longest display name given to download_gdrive_file directly.
MaxName == 3

\* ------------------------------------------------------------- the domains

Users == {"u1", "u2"}

\* Python's None, for an absent credential or dictionary entry.
None == [none |-> TRUE]

\* A refresh token, or its absence.
NoToken == "no_refresh_token"
RefreshTokens == {NoToken, "rt"}

\* Credentials.expiry of a credential built without one.
NoExpiry == -1

\* The lifetime the token endpoint gives a refreshed access token.
TokenLife == 2

VARIABLES
    tokenFile,      \* the content of TOKEN_STORAGE_FILE
    now,            \* the clock
    last,           \* the store call that returned last
    prev,           \* the store call before it
    tasks,          \* the handler tasks: slot -> the task's frame
    locks,          \* user_processing_locks: the chat ids whose lock is held
    active_flows,   \* auth_manager.active_flows: the users with a flow
    scratch,        \* DOWNLOAD_DIR: file name -> size, or Absent
    world           \* the surroundings, fixed from the start: who writes
                    \* from which chat, and what links resolve to

storeVars == <<tokenFile, now, last, prev>>
botVars == <<tasks, locks, active_flows, scratch, world>>

vars == <<tokenFile, now, last, prev, tasks, locks, active_flows, scratch,
          world>>

\* ------------------------------------------------- auth_manager.py, values

\* An access token is modelled by the instant at which the provider stops
\* accepting it: that is what the token is worth at the provider, whatever the
\* client remembers of it in Credentials.expiry.
Credential(tok, rt, exp) ==
    [token |-> tok, refresh_token |-> rt, token_uri |-> "token_uri",
     client_id |-> "client_id", client_secret |-> "client_secret",
     scopes |-> "drive.readonly", expiry |-> exp]

\* The credentials flow.fetch_token hands to save_user_credentials: the
\* expiry the token endpoint stated is set.
FlowCredentials ==
    {Credential(e, rt, e) : e \in 1..MaxTime, rt \in RefreshTokens}

\* The dictionary save_user_credentials writes for a user: six keys, and no
\* expiry among them.
CredentialDict(c) ==
    [token |-> c.token, refresh_token |-> c.refresh_token,
     token_uri |-> c.token_uri, client_id |-> c.client_id,
     client_secret |-> c.client_secret, scopes |-> c.scopes]

\* Credentials(**user_creds_dict): the keyword arguments given, and the
\* default expiry=None for the one that is not.
CredentialsFromDict(d) ==
    [token |-> d.token, refresh_token |-> d.refresh_token,
     token_uri |-> d.token_uri, client_id |-> d.client_id,
     client_secret |-> d.client_secret, scopes |-> d.scopes,
     expiry |-> NoExpiry]

\* credentials.expired: false without an expiry, else whether it has passed.
Expired(c, t) == c.expiry # NoExpiry /\ t >= c.expiry

\* Whether the provider still accepts the access token at instant t.
TokenAccepted(c, t) == t < c.token

\* credentials.refresh(Request()) when the token endpoint answers.
Refreshed(c, t) ==
    [c EXCEPT !.token = t + TokenLife, !.expiry = t + TokenLife]

\* The token file: missing, corrupt (not JSON), or a JSON object keyed by user.
NoTokens == [u \in Users |-> None]
MissingFile == [state |-> "missing", tokens |-> NoTokens]
CorruptFile == [state |-> "corrupt", tokens |-> NoTokens]
JsonFile(tokens) == [state |-> "json", tokens |-> tokens]

\* The record of a store call, before any call.
NoCall == [op |-> "none"]

\* ---------------------------------------------- auth_manager.py, functions

\* save_user_credentials, were all_tokens always to start as {}.
save_starting_afresh(file, u, c) ==
    JsonFile([NoTokens EXCEPT ![u] = CredentialDict(c)])

\* save_user_credentials: all_tokens is the file's object, or {} when the
\* file is missing or does not decode; the user's entry is replaced and the
\* whole object written back.
save_user_credentials(file, u, c) ==
    LET all_tokens == IF file.state = "json" THEN file.tokens ELSE NoTokens
    IN  JsonFile([all_tokens EXCEPT ![u] = CredentialDict(c)])

\* delete_user_credentials: [file, ret, raised]. json.load is not guarded
\* here: a corrupt file raises JSONDecodeError.
delete_user_credentials(file, u) ==
    IF file.state = "corrupt"
    THEN [file |-> file, ret |-> FALSE, raised |-> TRUE]
    ELSE IF file.state = "json" /\ file.tokens[u] # None
    THEN [file |-> JsonFile([file.tokens EXCEPT ![u] = None]),
          ret |-> TRUE, raised |-> FALSE]
    ELSE [file |-> file, ret |-> FALSE, raised |-> FALSE]

\* load_user_credentials at instant t: [file, ret, raised]. refreshOk is the
\* token endpoint's answer, should refresh be called.
load_user_credentials(file, u, t, refreshOk) ==
    IF file.state # "json" \/ file.tokens[u] = None
    THEN [file |-> file, ret |-> None, raised |-> FALSE]
    ELSE LET credentials == CredentialsFromDict(file.tokens[u])
         IN  IF Expired(credentials, t) /\ credentials.refresh_token # NoToken
             THEN IF refreshOk
                  THEN [file |-> save_user_credentials(file, u,
                                     Refreshed(credentials, t)),
                        ret |-> Refreshed(credentials, t), raised |-> FALSE]
                  ELSE [file |-> delete_user_credentials(file, u).file,
                        ret |-> None,
                        raised |-> delete_user_credentials(file, u).raised]
             ELSE [file |-> file, ret |-> credentials, raised |-> FALSE]

\* The answers of the token endpoint that load_user_credentials can meet:
\* none is asked for unless the credentials read are expired and refreshable.
RefreshAnswers(file, u, t) ==
    IF /\ file.state = "json"
       /\ u \in DOMAIN file.tokens
       /\ file.tokens[u] # None
       /\ Expired(CredentialsFromDict(file.tokens[u]), t)
       /\ file.tokens[u].refresh_token # NoToken
    THEN BOOLEAN ELSE {TRUE}

\* ------------------------------------------------------ config.py, sizes

\* Sizes are in MiB. LARGE_FILE_THRESHOLD_MB and MAX_FILE_SIZE_TG_MB are read
\* from the environment; the values are chosen so that files below, between
\* and above the two limits take one or two chunks to download.
LARGE_FILE_THRESHOLD_BYTES == 5
MAX_FILE_SIZE_TG_BYTES == 7

\* chunksize=1024*1024*5 of MediaIoBaseDownload.
ChunkSize == 5

\* ----------------------------------------------------- the remote store

\* A name is a sequence of characters.
Alnum == {"a", "b", "c", "t", "x", "0", "1", "2", "3", "4"}
KeptChars == {".", "_", "-"}

\* The remote items that links resolve to: an ordinary small file, a file
\* above the large-file threshold, one above Telegram's limit that bears the
\* small file's name, and a Google Workspace document, which has no size.
Item(id, name, size, mime) ==
    [id |-> id, name |-> name, size |-> size, mimeType |-> mime]
SmallFile == Item(<<"1">>, <<"a">>, 4, "binary")
LargeFile == Item(<<"2">>, <<"b">>, 6, "binary")
HugeFile == Item(<<"3">>, <<"a">>, 8, "binary")
GoogleDoc == Item(<<"4">>, <<"/">>, 0, "google-apps")
Catalogue == {SmallFile, LargeFile, HugeFile, GoogleDoc}
NoItem == Item(<<>>, <<>>, 0, "none")

\* What get_drive_items_from_link returns: (None, error_msg) or (files, None).
\* The enumeration itself is not modelled here: a link resolves to any list
\* of at most MaxFiles files.
RECURSIVE SeqsUpTo(_, _)
SeqsUpTo(S, n) ==
    IF n = 0 THEN {<<>>}
    ELSE SeqsUpTo(S, n - 1)
         \cup {Append(s, x) : s \in {q \in SeqsUpTo(S, n - 1) : Len(q) = n - 1},
                              x \in S}
EnumErrors == {"invalid_link", "metadata", "folder_403"}

\* Where a result came from, when the enumeration is modelled: the node the
\* link names, the status of the metadata fetch, and the folder whose listing
\* raised; or nothing of it.
Origin(link, status, failed) ==
    [link |-> link, status |-> status, failed |-> failed]
NoOrigin == Origin(-1, 0, -1)

EnumResults(items, n, errors) ==
    {[files |-> l, error_msg |-> "none", origin |-> NoOrigin] :
        l \in SeqsUpTo(items, n)}
    \cup {[files |-> <<>>, error_msg |-> e, origin |-> NoOrigin] : e \in errors}

\* ------------------------------------------------------ gdrive_handler.py

\* A Drive is a function from node ids to nodes; node 0 is a folder, and the
\* parent of every other node is a folder with a smaller id. Names are
\* ordered as the provider orders them.
FolderMime == "application/vnd.google-apps.folder"
NameOrder == <<"a.txt", "b.txt", "c.txt", "root", "sub">>
NameRank(name) == CHOOSE i \in 1..Len(NameOrder) : NameOrder[i] = name
Node(name, mime, size, parent) ==
    [name |-> name, mimeType |-> mime, size |-> size, parent |-> parent]
RootNode == Node("root", FolderMime, 0, -1)

\* The Drives with MaxNodes nodes below the root, each a file or a folder
\* named a.txt or b.txt.
GeneratedDrives ==
    {d \in [0..MaxNodes ->
              {RootNode} \cup
              {Node(n, m, IF m = FolderMime THEN 0 ELSE 1, q) :
                  n \in {"a.txt", "b.txt"}, m \in {FolderMime, "binary"},
                  q \in 0..(MaxNodes - 1)}] :
        /\ d[0] = RootNode
        /\ \A i \in 1..MaxNodes :
              /\ d[i] # RootNode
              /\ d[i].parent < i
              /\ d[d[i].parent].mimeType = FolderMime}

\* A folder with the files b.txt (10 B) and a.txt (20 B) and the subfolder
\* sub, which holds c.txt (5 B).
ScenarioDrive ==
    [i \in 0..4 |->
        CASE i = 0 -> RootNode
          [] i = 1 -> Node("b.txt", "binary", 10, 0)
          [] i = 2 -> Node("a.txt", "binary", 20, 0)
          [] i = 3 -> Node("sub", FolderMime, 0, 0)
          [] OTHER -> Node("c.txt", "binary", 5, 3)]

Drives == GeneratedDrives \cup {ScenarioDrive}

\* get_file_id_from_link finds no id in the link.
NoFileId == -1

\* orderBy='name': by name, ties by id.
BeforeByName(d, x, y) ==
    \/ NameRank(d[x].name) < NameRank(d[y].name)
    \/ NameRank(d[x].name) = NameRank(d[y].name) /\ x < y

\* orderBy='folder,name' (line 67): folders first, then by name; the order
\* of equal names is the provider's, here by id.
Before(d, x, y) ==
    \/ d[x].mimeType = FolderMime /\ d[y].mimeType # FolderMime
    \/ /\ (d[x].mimeType = FolderMime) = (d[y].mimeType = FolderMime)
       /\ BeforeByName(d, x, y)

RECURSIVE InOrder(_, _)
InOrder(d, S) ==
    IF S = {} THEN <<>>
    ELSE LET first == CHOOSE x \in S : \A y \in S \ {x} : Before(d, x, y)
         IN  <<first>> \o InOrder(d, S \ {first})

\* The items of one page of a listing.
PageSize == 2

\* files().list for a folder: the children, in the order asked for, cut into
\* pages of PageSize.
Children(d, folder_id) == {i \in DOMAIN d : d[i].parent = folder_id}

\* The first page only, nextPageToken not followed.
FirstPageOnly(list) ==
    <<SubSeq(list, 1, IF Len(list) < PageSize THEN Len(list) ELSE PageSize)>>

RECURSIVE Pages(_)
Pages(list) ==
    IF Len(list) <= PageSize THEN <<list>>
    ELSE <<SubSeq(list, 1, PageSize)>>
         \o Pages(SubSeq(list, PageSize + 1, Len(list)))
ListResponses(d, folder_id) == Pages(InOrder(d, Children(d, folder_id)))

\* item_path and item_details (lines 71-79): a path is the chain of names
\* that the f-string joins with slashes.
ItemPath(current_path, name) ==
    IF current_path = <<>> THEN <<name>> ELSE Append(current_path, name)
ItemDetails(d, id, path, is_folder) ==
    [id |-> id, name |-> d[id].name, mimeType |-> d[id].mimeType,
     size |-> d[id].size, path |-> path, is_folder |-> is_folder]

\* list_files_in_folder_recursive (lines 55-91): page after page, every item
\* is appended, and after a folder what the recursive call returns.
RECURSIVE list_files_in_folder_recursive(_, _, _)
RECURSIVE ListItems(_, _, _, _)
RECURSIVE ListPages(_, _, _, _)
ListItems(d, items, current_path, files_and_folders) ==
    IF items = <<>> THEN files_and_folders
    ELSE LET item == Head(items)
             item_details ==
                 ItemDetails(d, item, ItemPath(current_path, d[item].name),
                             d[item].mimeType = FolderMime)
             sub_items ==
                 IF item_details.is_folder
                 THEN list_files_in_folder_recursive(d, item,
                                                    item_details.path)
                 ELSE <<>>
         IN  ListItems(d, Tail(items), current_path,
                       Append(files_and_folders, item_details) \o sub_items)
ListPages(d, pages, current_path, files_and_folders) ==
    IF pages = <<>> THEN files_and_folders
    ELSE ListPages(d, Tail(pages), current_path,
                   ListItems(d, Head(pages), current_path, files_and_folders))
list_files_in_folder_recursive(d, folder_id, current_path) ==
    ListPages(d, ListResponses(d, folder_id), current_path, <<>>)

\* Whether list_files_in_folder_recursive raises for a folder when the
\* listing of the folder failed raises: its own files().list raises, or a
\* recursive call does (line 85), and the except clauses of lines 92-97
\* raise again what they caught.
RECURSIVE ListingRaises(_, _, _)
ListingRaises(d, folder_id, failed) ==
    \/ folder_id = failed
    \/ \E k \in Children(d, folder_id) :
          /\ d[k].mimeType = FolderMime
          /\ ListingRaises(d, k, failed)

\* The HTTP status files().get answers with: 200, or one of the failures.
MetaStatuses == {200, 401, 403, 404, 500}

\* get_file_metadata (lines 37-52): the metadata, or None whatever the
\* failure was: the status is logged and not returned.
get_file_metadata(d, file_id, status) ==
    IF status = 200 THEN d[file_id] ELSE None

\* No filter: every item listed.
FoldersToo(all_items) == all_items

\* The filter of line 115.
NotFolders(all_items) == SelectSeq(all_items, LAMBDA item : ~item.is_folder)

\* get_drive_items_from_link (lines 100-138): [files, error_msg]. metaOk is
\* whether get_file_metadata returned metadata, listOk whether no listing
\* call raised.
get_drive_items_from_link(d, file_id, metaOk, listOk) ==
    IF file_id = NoFileId
    THEN [files |-> <<>>, error_msg |-> "invalid_link"]
    ELSE IF ~metaOk
    THEN [files |-> <<>>, error_msg |-> "metadata"]
    ELSE IF d[file_id].mimeType = FolderMime
    THEN IF listOk
         THEN [files |-> NotFolders(list_files_in_folder_recursive(
                             d, file_id, <<d[file_id].name>>)),
               error_msg |-> "none"]
         ELSE [files |-> <<>>, error_msg |-> "folder"]
    ELSE [files |-> <<ItemDetails(d, file_id, <<d[file_id].name>>, FALSE)>>,
          error_msg |-> "none"]

\* ------------------------------------------------- file_manager.py, values

Absent == -1

\* safe_file_name: every character that is not alphanumeric or one of . _ -
\* becomes _, and an empty result is replaced by the file id.
safe_file_name(file_name, file_id) ==
    LET safe == [i \in 1..Len(file_name) |->
                    IF file_name[i] \in Alnum \cup KeptChars
                    THEN file_name[i] ELSE "_"]
    IN  IF safe = <<>> THEN file_id ELSE safe

ScratchPath(item) == safe_file_name(item.name, item.id)

\* The characters of the names given to the nodes of a Drive, and a node's id
\* as the text it is.
Spell(name) ==
    CASE name = "a.txt" -> <<"a", ".", "t", "x", "t">>
      [] name = "b.txt" -> <<"b", ".", "t", "x", "t">>
      [] name = "c.txt" -> <<"c", ".", "t", "x", "t">>
      [] OTHER -> <<>>
IdText(id) == <<ToString(id)>>

ScratchNames ==
    {ScratchPath(i) : i \in Catalogue}
    \cup {Spell(n) : n \in {"a.txt", "b.txt", "c.txt"}}
EmptyScratch == [p \in ScratchNames |-> Absent]

\* No clean-up: the directory as it is.
LeaveFile(scr, path) == scr

\* os.remove(file_path) behind if os.path.exists(file_path).
RemoveIfExists(scr, path) == [scr EXCEPT ![path] = Absent]

\* A write through an open descriptor up to offset g: the file at the path
\* grows to g; a path unlinked meanwhile stays unlinked.
WriteUpTo(scr, path, g) ==
    IF scr[path] = Absent THEN scr
    ELSE [scr EXCEPT ![path] = IF @ > g THEN @ ELSE g]

\* int(status.progress() * 100): progress() is 0 for a total size of 0.
Percentage(got, size) == IF size = 0 THEN 0 ELSE (got * 100) \div size

\* The offsets at which the chunk loop can next suspend, from offset got of a
\* file of the given size. The loop suspends in progress_callback: after a
\* chunk when the percentage is a multiple of 5 or two seconds have passed
\* (which they always may have), and after the last chunk for the final
\* call. Chunks whose percentage is no multiple of 5 can go by unreported.
ChunkEnd(got, size, k) ==
    IF got + k * ChunkSize > size THEN size ELSE got + k * ChunkSize
ChunksLeft(got, size) ==
    IF size = got THEN 1 ELSE (size - got + ChunkSize - 1) \div ChunkSize
NextStops(got, size) ==
    { ChunkEnd(got, size, k) : k \in
        { k \in 1..ChunksLeft(got, size) :
            \A j \in 1..(k - 1) :
                Percentage(ChunkEnd(got, size, j), size) % 5 # 0 } }

\* What one run of the chunk loop, from one suspension to the next, can come
\* to: a suspension at a further offset, HttpError, or any other exception.
RunChoices(got, size) ==
    {[kind |-> "suspend", got |-> g] : g \in NextStops(got, size)}
    \cup {[kind |-> "HttpError", got |-> got], [kind |-> "Exception", got |-> got]}

\* What can happen from the call of download_gdrive_file to its first await:
\* get_drive_service raises (build), opening the file raises (open), or the
\* chunk loop runs.
StartChoices(size) ==
    RunChoices(0, size)
    \cup {[kind |-> "build", got |-> 0], [kind |-> "open", got |-> 0]}

\* The chunk loop's state between chunks (lines 48-49), and the last call of
\* progress_callback: its percentage, whether it was the final one, and how
\* many final ones there have been. No call yet: percentage -1.
Progress(downloaded_percentage, percentage, is_final, finals) ==
    [downloaded_percentage |-> downloaded_percentage, last |-> percentage,
     final |-> is_final, finals |-> finals]
NoProgress == Progress(0, -1, FALSE, 0)

\* The callback called after every chunk for which the throttle lets it.
ReportsEveryChunk(current_progress, downloaded_percentage, elapsed) ==
    elapsed \/ current_progress % 5 = 0

\* Lines 56-59: whether progress_callback is called after a chunk. elapsed is
\* whether more than two seconds have passed since the last call.
Reports(current_progress, downloaded_percentage, elapsed) ==
    /\ current_progress > downloaded_percentage
    /\ (elapsed \/ current_progress % 5 = 0)

\* Lines 53-61 for one chunk that next_chunk returned, at the offset got of
\* a file of the given size: the loop's state after it.
AfterChunk(p, got, size, elapsed) ==
    LET current_progress == Percentage(got, size)
        raised == IF current_progress > p.downloaded_percentage
                  THEN current_progress ELSE p.downloaded_percentage
    IN  IF Reports(current_progress, p.downloaded_percentage, elapsed)
        THEN Progress(raised, raised, FALSE, p.finals)
        ELSE [p EXCEPT !.downloaded_percentage = raised]

\* Line 64: the final call, with 100.
AfterFinal(p) == Progress(p.downloaded_percentage, 100, TRUE, p.finals + 1)

\* ------------------------------------------------------- main.py, values

\* A message comes from a user in a chat: a private chat or a group.
Chats == {"c1", "c2"}
Source(u, c) == [user |-> u, chat |-> c]
Slots == DOMAIN tasks

\* The names main.py imports or defines at module level: os is not among
\* them.
main_names ==
    {"asyncio", "re", "Update", "constants", "Application", "CommandHandler",
     "MessageHandler", "filters", "ContextTypes", "CallbackContext",
     "TELEGRAM_BOT_TOKEN", "LARGE_FILE_THRESHOLD_BYTES", "GOOGLE_REDIRECT_URI",
     "ADMIN_USER_ID", "logger", "auth_manager", "gdrive_handler",
     "file_manager"}

\* A task's frame: where it is suspended (pc) and its local variables. calls
\* and told record, for the file in hand, the engine calls made and the
\* notifications issued; matched, whether download_gdrive_file found at the
\* path a file of the expected size; fault, what was raised inside
\* download_gdrive_file; ret, what the engine call returned or raised; how,
\* whether the handler returned or an exception escaped it; origin, where
\* the result of the enumeration came from; lookups, how often the job has
\* called load_user_credentials; used, the credentials read for the file in
\* hand; progress, the chunk loop's downloaded_percentage and what the
\* progress callback was last called with.
Idle ==
    [pc |-> "none", caller |-> "none", user |-> "none", chat |-> "none",
     files |-> <<>>, total |-> 0, error_msg |-> "none", idx |-> 0,
     credentials |-> None, successful_uploads |-> 0, failed_uploads |-> 0,
     item |-> NoItem, file_path |-> <<>>, got |-> 0, err |-> "none",
     calls |-> {}, told |-> {}, summary |-> FALSE, how |-> "none",
     ret |-> "none", left |-> FALSE, matched |-> FALSE, fault |-> "none",
     origin |-> NoOrigin, lookups |-> 0, used |-> None,
     progress |-> NoProgress]

\* The span from link analysis through the final summary.
JobPcs == {"analyzing", "enum_notify", "found_notify", "preparing",
           "gate_notify", "downloading", "err_notify", "summary"}
InJob(tk) == tk.caller = "handler" /\ tk.pc \in JobPcs

\* The frames of a task with a file of the loop in hand (lines 155-263).
FilePcs == {"preparing", "gate_notify", "downloading", "err_notify"}

\* ---------------------------------------------- main.py, the transfer loop

\* The except clauses of the loop body (lines 250-261): each awaits
\* current_op_msg.edit_text and only then counts the failure.
ExceptClause(tk, kind) ==
    [tk EXCEPT !.pc = "err_notify", !.err = kind, !.told = @ \cup {kind}]

\* The end of an iteration (asyncio.sleep, or continue) and the head of the
\* next (lines 155-166: context.bot.send_message is awaited outside the
\* try), or the summary after the last file (lines 265-266).
NextFile(tk) ==
    IF tk.idx < Len(tk.files)
    THEN [tk EXCEPT !.pc = "preparing", !.idx = @ + 1,
                    !.item = tk.files[tk.idx + 1], !.file_path = <<>>,
                    !.got = 0, !.err = "none", !.calls = {},
                    !.told = {"preparing"}, !.matched = FALSE,
                    !.fault = "none", !.ret = "none", !.used = None]
    ELSE [tk EXCEPT !.pc = "summary", !.summary = TRUE]

\* On to the next file, the failure not counted.
NextFileUncounted(tk) == NextFile(tk)

\* On to the next file, the failure counted twice.
CountFailedTwice(tk) == NextFile([tk EXCEPT !.failed_uploads = @ + 2])

\* failed_uploads += 1, then on to the next file.
CountFailed(tk) == NextFile([tk EXCEPT !.failed_uploads = @ + 1])

\* successful_uploads += 1, then on to the next file.
CountSucceeded(tk) == NextFile([tk EXCEPT !.successful_uploads = @ + 1])

\* What the handler does with upload_to_telegram's result (lines 235-261).
\* FileNotFoundError is an OSError, which the except IOError clause takes.
AfterUpload(tk, outcome) ==
    CASE outcome = "True" -> CountSucceeded(tk)
      [] outcome = "False" -> CountFailed(tk)
      [] outcome = "OSError" -> ExceptClause(tk, "io")
      [] OTHER -> ExceptClause(tk, "unexpected")

\* upload_to_telegram, from the call to its first await: [task, scratch].
\* os.path.getsize raises for a missing file; a file above the limit is
\* reported with bot.send_message, before the try whose finally removes the
\* file; otherwise the file is opened and send_document awaited.
UploadConcluded(tk, scr, outcome) ==
    IF tk.caller = "handler"
    THEN [task |-> AfterUpload(tk, outcome), scratch |-> scr]
    ELSE [task |-> [tk EXCEPT !.pc = "returned", !.ret = outcome,
                              !.left = scr[tk.file_path] # Absent],
          scratch |-> scr]

upload_to_telegram(tk, scr) ==
    LET tk1 == [tk EXCEPT !.calls = @ \cup {"upload"}]
    IN  IF scr[tk.file_path] = Absent
        THEN UploadConcluded(tk1, scr, "OSError")
        ELSE IF scr[tk.file_path] > MAX_FILE_SIZE_TG_BYTES
        THEN [task |-> [tk1 EXCEPT !.pc = "ul_skip_notify"], scratch |-> scr]
        ELSE [task |-> [tk1 EXCEPT !.pc = "uploading",
                                   !.calls = @ \cup {"send_document"}],
              scratch |-> scr]

\* Lines 211-237, once download_gdrive_file has returned a path. The test of
\* line 211 reads os.path.exists, and os is no name of main.py: NameError,
\* which the except Exception clause takes. With os defined, a missing or
\* empty file of a non-empty original is counted failed, and anything else is
\* uploaded.
AfterDownloadReturned(tk, scr) ==
    IF "os" \notin main_names
    THEN [task |-> ExceptClause(tk, "unexpected"), scratch |-> scr]
    ELSE IF scr[tk.file_path] = Absent /\ tk.item.size > 0
    THEN [task |-> [tk EXCEPT !.pc = "missing_notify"], scratch |-> scr]
    ELSE IF scr[tk.file_path] = 0 /\ tk.item.size > 0
    THEN [task |-> [tk EXCEPT !.pc = "missing_notify"],
          scratch |-> RemoveIfExists(scr, tk.file_path)]
    ELSE upload_to_telegram(tk, scr)

\* download_gdrive_file has returned or raised: [task, scratch]. Raised in
\* the handler's try, ConnectionError and IOError have their own clauses.
DownloadConcluded(tk, scr, outcome) ==
    IF tk.caller # "handler"
    THEN [task |-> [tk EXCEPT !.pc = "returned", !.ret = outcome,
                              !.left = scr[tk.file_path] # Absent],
          scratch |-> scr]
    ELSE LET tk1 == [tk EXCEPT !.ret = outcome]
         IN  CASE outcome = "path" -> AfterDownloadReturned(tk1, scr)
               [] outcome = "ConnectionError" ->
                    [task |-> ExceptClause(tk1, "conn"), scratch |-> scr]
               [] outcome = "IOError" ->
                    [task |-> ExceptClause(tk1, "io"), scratch |-> scr]
               [] OTHER ->
                    [task |-> ExceptClause(tk1, "unexpected"), scratch |-> scr]

\* --------------------------------------- file_manager.py, the download

\* One run of the chunk loop of download_gdrive_file (lines 52-66), and the
\* two except clauses (lines 67-74), which remove the file and raise
\* ConnectionError for HttpError and IOError for anything else.
DownloadRun(tk0, scr, ch) ==
    LET tk == [tk0 EXCEPT !.calls = @ \cup {"next_chunk"}]
    IN  CASE ch.kind = "suspend" ->
                [task |-> [tk EXCEPT !.pc = "downloading", !.got = ch.got],
                 scratch |-> WriteUpTo(scr, tk.file_path, ch.got)]
          [] ch.kind = "HttpError" ->
                DownloadConcluded([tk EXCEPT !.fault = "HttpError"],
                                  RemoveIfExists(scr, tk.file_path),
                                  "ConnectionError")
          [] OTHER ->
                DownloadConcluded([tk EXCEPT !.fault = "Exception"],
                                  RemoveIfExists(scr, tk.file_path),
                                  "IOError")

\* Whether download_gdrive_file takes the file already at the path for the
\* download (line 41).
AlreadyComplete(scr, path, file_size) ==
    scr[path] # Absent /\ scr[path] = file_size /\ file_size > 0

\* download_gdrive_file, from the call to its first await (lines 25-60):
\* get_drive_service may raise; a file already at the path with the expected,
\* non-zero size is returned as it is; otherwise the file is opened for
\* writing, which truncates it, and the chunk loop runs.
download_gdrive_file(tk, scr, ch) ==
    LET path == ScratchPath(tk.item)
        tk1 == [tk EXCEPT !.calls = @ \cup {"download"}, !.file_path = path,
                          !.got = 0,
                          !.matched = scr[path] # Absent
                                      /\ scr[path] = tk.item.size]
    IN  IF ch.kind = "build" THEN DownloadConcluded(tk1, scr, "Exception")
        ELSE IF AlreadyComplete(scr, path, tk.item.size)
        THEN DownloadConcluded(tk1, scr, "path")
        ELSE IF ch.kind = "open"
        THEN DownloadConcluded([tk1 EXCEPT !.fault = "OSError"],
                               RemoveIfExists(scr, path), "IOError")
        ELSE DownloadRun(tk1, [scr EXCEPT ![path] = 0], ch)

\* The download resumed after a progress callback: the final callback has
\* returned when the whole file is there, and the path is returned.
DownloadResumed(tk, scr, ch) ==
    IF tk.got = tk.item.size
    THEN DownloadConcluded(tk, scr, "path")
    ELSE DownloadRun(tk, scr, ch)

\* The step of a task suspended in download_gdrive_file.
DownloadStep(t) ==
    /\ tasks[t].pc = "downloading"
    /\ \E ch \in RunChoices(tasks[t].got, tasks[t].item.size) :
         LET r == DownloadResumed(tasks[t], scratch, ch)
         IN  /\ tasks' = [tasks EXCEPT ![t] = r.task]
             /\ scratch' = r.scratch
    /\ UNCHANGED <<storeVars, locks, active_flows, world>>

\* ------------------------------------------------- main.py, the handlers

\* The credentials flow.fetch_token yields at instant t (access_type offline,
\* prompt consent: with a refresh token).
FetchedCredentials(t) == Credential(t + TokenLife, "rt", t + TokenLife)

\* The size gate, were it set at Telegram's limit.
LoginRequiredAboveTelegramLimit(file_size, credentials) ==
    file_size > MAX_FILE_SIZE_TG_BYTES /\ credentials = None

\* The size gate of line 188.
LoginRequired(file_size, credentials) ==
    file_size > LARGE_FILE_THRESHOLD_BYTES /\ credentials = None

\* Which of the texts that line 142 looks for an error message contains. The
\* messages of lines 104 and 108 of gdrive_handler.py are fixed texts with
\* none of them; that of line 119 ends with the text of the exception, which
\* for an HttpError names its status.
Mentions(error_msg) ==
    CASE error_msg = "folder_403" -> {"403"}
      [] OTHER -> {}

\* The condition of line 142 under which "Try /login" is sent.
SuggestsLogin(error_msg, credentials) ==
    /\ Mentions(error_msg) \cap {"401", "403", "Credentials"} # {}
    /\ credentials = None

\* Leaving async with: the lock of the task's chat is released, whether the
\* handler returned or an exception escaped it. Of the frame, what the job
\* came to is kept until the task is reaped.
Ended(tk, how) ==
    [Idle EXCEPT !.pc = "ended", !.caller = tk.caller, !.how = how,
                 !.total = Len(tk.files), !.idx = tk.idx,
                 !.successful_uploads = tk.successful_uploads,
                 !.failed_uploads = tk.failed_uploads,
                 !.summary = tk.summary]

\* handle_message up to its first await (lines 87-133). The lock is looked
\* up by chat_id; locked() and the acquisition are not separated by an
\* await. kind is what the text looks like: an OAuth code, a Drive link, or
\* neither. exchange_code_for_credentials runs under the lock, without an
\* await.
Receive(t, u, c, kind, fetchOk) ==
    /\ tasks[t].pc = "none"
    /\ Source(u, c) \in world.sources
    /\ LET tk == [Idle EXCEPT !.caller = "handler", !.user = u, !.chat = c]
       IN  IF c \in locks
           THEN /\ tasks' = [tasks EXCEPT ![t] = [tk EXCEPT !.pc = "busy"]]
                /\ UNCHANGED <<locks, active_flows, tokenFile>>
           ELSE /\ locks' = locks \cup {c}
                /\ CASE kind = "code" ->
                          /\ tasks' = [tasks EXCEPT ![t] =
                                          [tk EXCEPT !.pc = "reply"]]
                          /\ active_flows' = active_flows \ {u}
                          /\ tokenFile' =
                               IF u \in active_flows /\ fetchOk
                               THEN save_user_credentials(tokenFile, u,
                                        FetchedCredentials(now))
                               ELSE tokenFile
                     [] kind = "text" ->
                          /\ tasks' = [tasks EXCEPT ![t] =
                                          [tk EXCEPT !.pc = "reply"]]
                          /\ UNCHANGED <<active_flows, tokenFile>>
                     [] OTHER ->
                          /\ tasks' = [tasks EXCEPT ![t] =
                                          [tk EXCEPT !.pc = "analyzing"]]
                          /\ UNCHANGED <<active_flows, tokenFile>>
    /\ UNCHANGED <<now, last, prev, scratch, world>>

\* The busy reply (line 97) has been sent: return, the lock never taken.
BusyReturn(t) ==
    /\ tasks[t].pc = "busy"
    /\ tasks' = [tasks EXCEPT ![t] = Idle]
    /\ UNCHANGED <<storeVars, locks, active_flows, scratch, world>>

\* The reply to an OAuth code or to a text that is no link has been sent
\* (lines 116-119, 129-130): return, releasing the lock.
ReplyReturn(t) ==
    /\ tasks[t].pc = "reply"
    /\ tasks' = [tasks EXCEPT ![t] = Idle]
    /\ locks' = locks \ {tasks[t].chat}
    /\ UNCHANGED <<storeVars, active_flows, scratch, world>>

\* The handler goes on to the loop whenever there is no error message.
AbortsOnErrorOnly(files_to_process, error_msg) == error_msg # "none"

\* Lines 139 and 146: the job is given up when get_drive_items_from_link
\* returned an error message or no file.
Aborts(files_to_process, error_msg) ==
    error_msg # "none" \/ files_to_process = <<>>

\* What the handler says of the enumeration's result (lines 140-150).
EnumNotice(files_to_process, error_msg, credentials) ==
    IF error_msg # "none"
    THEN IF SuggestsLogin(error_msg, credentials)
         THEN {"error", "try_login"} ELSE {"error"}
    ELSE IF files_to_process = <<>> THEN {"nothing"} ELSE {"found"}

\* Lines 133-150: "Link received" has been sent (or raised); the credentials
\* are loaded once, the link is resolved (no await suspends in between: the
\* Drive calls are blocking), and the outcome is reported.
Analyze(t, raised, refreshOk, res) ==
    /\ tasks[t].pc = "analyzing"
    /\ IF raised
       THEN /\ tasks' = [tasks EXCEPT ![t] = Ended(@, "escaped")]
            /\ locks' = locks \ {tasks[t].chat}
            /\ UNCHANGED tokenFile
       ELSE LET r == load_user_credentials(tokenFile, tasks[t].user, now,
                                           refreshOk)
                tk == [tasks[t] EXCEPT !.credentials = r.ret,
                                       !.lookups = @ + 1,
                                       !.files = res.files,
                                       !.error_msg = res.error_msg,
                                       !.origin = res.origin,
                                       !.told = EnumNotice(res.files,
                                                    res.error_msg, r.ret)]
            IN  /\ tokenFile' = r.file
                /\ tasks' = [tasks EXCEPT ![t] =
                     IF Aborts(res.files, res.error_msg)
                     THEN [tk EXCEPT !.pc = "enum_notify"]
                     ELSE [tk EXCEPT !.pc = "found_notify"]]
                /\ UNCHANGED locks
    /\ UNCHANGED <<now, last, prev, active_flows, scratch, world>>

\* Lines 139-148: the error, with "Try /login" where line 142 says so, or
\* "No files found", has been reported: return.
EnumReturn(t, raised) ==
    /\ tasks[t].pc = "enum_notify"
    /\ tasks' = [tasks EXCEPT ![t] =
                    Ended(@, IF raised THEN "escaped" ELSE "returned")]
    /\ locks' = locks \ {tasks[t].chat}
    /\ UNCHANGED <<storeVars, active_flows, scratch, world>>

\* Lines 150-166: "Found n file(s)" has been sent; the loop is entered and
\* "Preparing to process" awaited for the first file.
StartLoop(t, raised) ==
    /\ tasks[t].pc = "found_notify"
    /\ IF raised
       THEN /\ tasks' = [tasks EXCEPT ![t] = Ended(@, "escaped")]
            /\ locks' = locks \ {tasks[t].chat}
       ELSE /\ tasks' = [tasks EXCEPT ![t] = NextFile(@)]
            /\ UNCHANGED locks
    /\ UNCHANGED <<storeVars, active_flows, scratch, world>>

\* The credentials looked up anew for every file.
ReloadedCredentials(tk) ==
    load_user_credentials(tokenFile, tk.user, now, TRUE).ret

\* The credentials the loop reads at lines 188 and 208: the handler's local
\* variable, assigned once at line 135.
JobCredentials(tk) == tk.credentials

\* Lines 186-209 for the file in hand, up to the first await after which
\* something is decided: [task, scratch]. The size gate awaits its notice.
\* A Google Workspace document without a size gets a notice first (lines
\* 198-203), which lands in except Exception when it raises; between that
\* notice and the download nothing is read or written, so the two are one
\* step here.
BeginFile(tk0, scr, ch) ==
    LET tk == [tk0 EXCEPT !.used = JobCredentials(tk0)]
    IN  IF LoginRequired(tk.item.size, tk.used)
        THEN [task |-> [tk EXCEPT !.pc = "gate_notify",
                                  !.told = @ \cup {"login"}],
              scratch |-> scr]
        ELSE IF tk.item.mimeType = "google-apps" /\ tk.item.size = 0
                /\ ch.kind = "notice"
        THEN [task |-> ExceptClause(tk, "unexpected"), scratch |-> scr]
        ELSE download_gdrive_file(tk, scr, ch)

\* Line 166 has returned, or raised: it is outside the try, so what it
\* raises escapes the handler. Then the body of the try up to its first
\* await.
Prepare(t, ch) ==
    /\ tasks[t].pc = "preparing"
    /\ IF ch.kind = "raised"
       THEN /\ tasks' = [tasks EXCEPT ![t] = Ended(@, "escaped")]
            /\ locks' = locks \ {tasks[t].chat}
            /\ UNCHANGED scratch
       ELSE LET r == BeginFile(tasks[t], scratch, ch)
            IN  /\ tasks' = [tasks EXCEPT ![t] = r.task]
                /\ scratch' = r.scratch
                /\ UNCHANGED locks
    /\ UNCHANGED <<storeVars, active_flows, world>>

\* What Prepare can meet: line 166 raises, the notice for a Google Workspace
\* document raises, or one of the courses of the download's start.
PrepareChoices(tk) ==
    StartChoices(tk.item.size)
    \cup {[kind |-> "raised", got |-> 0], [kind |-> "notice", got |-> 0]}

\* The login notice of lines 189-195 has been sent: the file is counted
\* failed and the loop continues. Raised, it lands in except Exception.
GateNotified(t, raised) ==
    /\ tasks[t].pc = "gate_notify"
    /\ tasks' = [tasks EXCEPT ![t] =
                    IF raised THEN ExceptClause(@, "unexpected")
                    ELSE CountFailed(@)]
    /\ UNCHANGED <<storeVars, locks, active_flows, scratch, world>>

\* The edit_text of an except clause has returned: failed_uploads += 1 and
\* the loop goes on. Raised, it escapes the handler: the failure is not
\* counted and the files left are not processed.
ErrNotified(t, raised) ==
    /\ tasks[t].pc = "err_notify"
    /\ IF raised
       THEN /\ tasks' = [tasks EXCEPT ![t] = Ended(@, "escaped")]
            /\ locks' = locks \ {tasks[t].chat}
       ELSE /\ tasks' = [tasks EXCEPT ![t] = CountFailed(@)]
            /\ UNCHANGED locks
    /\ UNCHANGED <<storeVars, active_flows, scratch, world>>

\* The handler left after the summary, were the lock not released.
SummarizedHoldingLock(t, raised) ==
    /\ tasks[t].pc = "summary"
    /\ tasks' = [tasks EXCEPT ![t] =
                    Ended(@, IF raised THEN "escaped" ELSE "returned")]
    /\ UNCHANGED <<storeVars, locks, active_flows, scratch, world>>

\* The summary (line 266) has been sent: the handler is left.
Summarized(t, raised) ==
    /\ tasks[t].pc = "summary"
    /\ tasks' = [tasks EXCEPT ![t] =
                    Ended(@, IF raised THEN "escaped" ELSE "returned")]
    /\ locks' = locks \ {tasks[t].chat}
    /\ UNCHANGED <<storeVars, active_flows, scratch, world>>

\* The task is gone.
Reap(t) ==
    /\ tasks[t].pc \in {"ended", "returned"}
    /\ tasks' = [tasks EXCEPT ![t] = Idle]
    /\ UNCHANGED <<storeVars, locks, active_flows, scratch, world>>

\* login_command: get_auth_url stores a flow for the user.
Login(u) ==
    /\ active_flows' = active_flows \cup {u}
    /\ UNCHANGED <<storeVars, tasks, locks, scratch, world>>

\* logout_command: delete_user_credentials, under no lock.
Logout(u) ==
    /\ tokenFile' = delete_user_credentials(tokenFile, u).file
    /\ UNCHANGED <<now, last, prev, botVars>>

\* status_command: load_user_credentials, and delete_user_credentials should
\* the loaded credentials be expired.
Status(u, refreshOk) ==
    /\ LET r == load_user_credentials(tokenFile, u, now, refreshOk)
       IN  tokenFile' =
             IF r.ret # None /\ Expired(r.ret, now)
             THEN delete_user_credentials(r.file, u).file
             ELSE r.file
    /\ UNCHANGED <<now, last, prev, botVars>>

MessageKinds == {"link", "code", "text"}

\* The users who use the commands /login, /logout and /status.
Commanders == world.commanders

\* Two users; the first writes from both chats, the second from the first
\* chat, which is then a group. The first user logs in and out. A link resolves to an error or to at most one
\* of two files that bear the same name.
ConcurrentWorld ==
    [sources |-> {Source("u1", "c1"), Source("u1", "c2"), Source("u2", "c1")},
     commanders |-> {"u1"},
     items |-> {SmallFile, HugeFile}, longest |-> 1, errors |-> {"folder_403"}]

\* One user in one chat; a link resolves to any error or to any list of at
\* most MaxFiles files of the catalogue.
JobWorld ==
    [sources |-> {Source("u1", "c1")}, commanders |-> {"u1"},
     items |-> Catalogue, longest |-> MaxFiles, errors |-> EnumErrors]

\* The Drives of the jobs whose enumeration is modelled: the scenario's, and
\* those with two folders under the root and files anywhere.
LinkDrives ==
    {ScenarioDrive}
    \cup {d \in GeneratedDrives :
            /\ \A i \in 1..2 : d[i].mimeType = FolderMime /\ d[i].parent = 0
            /\ \A i \in 3..MaxNodes : d[i].mimeType # FolderMime}

\* One user in one chat; a link names a node of the Drive, or nothing.
LinkWorld(d) ==
    [sources |-> {Source("u1", "c1")}, commanders |-> {"u1"},
     items |-> {}, longest |-> 0, errors |-> {}, drive |-> d]

\* file_info as the loop reads it (lines 156-159, 198).
FileInfo(item_details) ==
    Item(IdText(item_details.id), Spell(item_details.name),
         item_details.size, item_details.mimeType)

\* What get_drive_items_from_link returns to the handler for a link into the
\* Drive d. A listing that fails does so with HttpError 403.
LinkResults(d) ==
    {LET failing == /\ file_id # NoFileId
                    /\ status = 200
                    /\ d[file_id].mimeType = FolderMime
                    /\ ListingRaises(d, file_id, failed)
         r == get_drive_items_from_link(d, file_id,
                  file_id # NoFileId
                  => get_file_metadata(d, file_id, status) # None,
                  ~failing)
     IN  [files |-> [i \in 1..Len(r.files) |-> FileInfo(r.files[i])],
          error_msg |-> IF r.error_msg = "folder" THEN "folder_403"
                        ELSE r.error_msg,
          origin |-> Origin(file_id,
                            IF file_id = NoFileId THEN 0 ELSE status,
                            IF failing THEN failed ELSE NoFileId)] :
       file_id \in DOMAIN d \cup {NoFileId},
       status \in MetaStatuses,
       failed \in {k \in DOMAIN d : d[k].mimeType = FolderMime}
                  \cup {NoFileId}}

\* What a link can resolve to in the world.
Results ==
    IF "drive" \in DOMAIN world
    THEN LinkResults(world.drive)
    ELSE EnumResults(world.items, world.longest, world.errors)

InitBot(w, slots) ==
    /\ tokenFile = MissingFile
    /\ now = 0
    /\ last = NoCall
    /\ prev = NoCall
    /\ tasks = [t \in slots |-> Idle]
    /\ locks = {}
    /\ active_flows = {}
    /\ scratch = EmptyScratch
    /\ world = w

Init == InitBot(ConcurrentWorld, 1..MaxTasks)

\* The steps of the handlers, but for the busy reply.
Handle ==
    \/ \E t \in Slots, s \in world.sources, kind \in MessageKinds,
          fetchOk \in BOOLEAN : Receive(t, s.user, s.chat, kind, fetchOk)
    \/ \E t \in Slots : ReplyReturn(t)
    \/ \E t \in Slots :
          /\ tasks[t].pc = "analyzing"
          /\ \E raised \in BOOLEAN, res \in Results :
               \E refreshOk \in RefreshAnswers(tokenFile, tasks[t].user, now) :
                  Analyze(t, raised, refreshOk, res)
    \/ \E t \in Slots, raised \in BOOLEAN : EnumReturn(t, raised)
    \/ \E t \in Slots, raised \in BOOLEAN : StartLoop(t, raised)
    \/ \E t \in Slots : \E ch \in PrepareChoices(tasks[t]) : Prepare(t, ch)
    \/ \E t \in Slots, raised \in BOOLEAN : GateNotified(t, raised)
    \/ \E t \in Slots : DownloadStep(t)
    \/ \E t \in Slots, raised \in BOOLEAN : ErrNotified(t, raised)
    \/ \E t \in Slots, raised \in BOOLEAN : Summarized(t, raised)
    \/ \E t \in Slots : Reap(t)
    \/ \E u \in Commanders : Login(u)
    \/ \E u \in Commanders : Logout(u)
    \/ \E u \in Commanders : \E refreshOk \in RefreshAnswers(tokenFile, u, now) :
          Status(u, refreshOk)

Busy == \E t \in Slots : BusyReturn(t)

Next == Handle \/ Busy

Spec == Init /\ [][Next]_vars

\* One handler task at a time, over every listing: the course of one job.
InitJob == InitBot(JobWorld, {1})
SpecJob == InitJob /\ [][Handle]_vars

\* One handler task at a time, the links pointing into a Drive: the
\* enumeration and the job that follows it.
InitLink == \E d \in LinkDrives : InitBot(LinkWorld(d), {1})
SpecLink == InitLink /\ [][Handle]_vars

\* ------------------------------------------------------ the handlers' claims

EveryFileVisitedAndSummarized ==
    \A t \in Slots :
        (tasks[t].pc = "ended" /\ tasks[t].idx >= 1)
        => /\ tasks[t].idx = tasks[t].total
           /\ tasks[t].successful_uploads + tasks[t].failed_uploads
                = tasks[t].total
           /\ tasks[t].summary

GatedFileIsSkipped ==
    [][\A t \in Slots :
          LET tk == tasks[t]
              nx == tasks'[t]
              Gated(k) == /\ k.caller = "handler"
                          /\ k.pc \in FilePcs
                          /\ k.item.size > LARGE_FILE_THRESHOLD_BYTES
                          /\ k.credentials = None
              PassedOn == \/ nx.pc \in FilePcs /\ nx.idx # tk.idx
                          \/ nx.pc = "summary"
          IN  /\ Gated(nx) => nx.calls \cap {"download", "upload"} = {}
              /\ (Gated(tk) /\ tk.pc = "preparing" /\ nx # tk /\ nx.pc # "ended")
                 => nx.pc = "gate_notify" /\ "login" \in nx.told
              /\ (Gated(tk) /\ PassedOn)
                 => /\ nx.failed_uploads = tk.failed_uploads + 1
                    /\ nx.successful_uploads = tk.successful_uploads
                    /\ "login" \in tk.told]_vars

\* C5, its case: a job has passed on from a large file for which it had no
\* credentials.
GatedFileWasSkipped ==
    \E t \in Slots :
        /\ tasks[t].pc = "summary"
        /\ tasks[t].item = LargeFile
        /\ tasks[t].credentials = None
        /\ tasks[t].told = {"preparing", "login"}
        /\ tasks[t].calls = {}
        /\ tasks[t].failed_uploads = tasks[t].idx

\* C6: for an item above Telegram's limit, send_document is never called, and
\* when the job passes on from the item failed_uploads has grown by one.
\* (SpecJob)
OversizeItemIsNeverSent ==
    [][\A t \in Slots :
          LET tk == tasks[t]
              nx == tasks'[t]
              Oversize(k) == /\ k.caller = "handler"
                             /\ k.item.size > MAX_FILE_SIZE_TG_BYTES
              PassedOn == \/ nx.pc \in FilePcs /\ nx.idx # tk.idx
                          \/ nx.pc = "summary"
          IN  /\ Oversize(nx) => "send_document" \notin nx.calls
              /\ (Oversize(tk) /\ tk.pc \in FilePcs /\ PassedOn)
                 => /\ nx.failed_uploads = tk.failed_uploads + 1
                    /\ nx.successful_uploads = tk.successful_uploads]_vars

\* C6, its case: a job with credentials has downloaded an item above
\* Telegram's limit in full and has passed on from it.
OversizeItemWasDownloaded ==
    \E t \in Slots :
        /\ tasks[t].pc = "summary"
        /\ tasks[t].item = HugeFile
        /\ tasks[t].credentials # None
        /\ tasks[t].got = HugeFile.size
        /\ "download" \in tasks[t].calls
        /\ tasks[t].failed_uploads >= 1

\* -------------------------------------------------- SpecEngine's actions

\* A caller other than handle_message calls download_gdrive_file for an item.
CallDownload(t, item, ch) ==
    /\ tasks[t].pc = "none"
    /\ LET tk == [Idle EXCEPT !.caller = "direct", !.item = item]
           r == download_gdrive_file(tk, scratch, ch)
       IN  /\ tasks' = [tasks EXCEPT ![t] = r.task]
           /\ scratch' = r.scratch
    /\ UNCHANGED <<storeVars, locks, active_flows, world>>

\* A caller calls upload_to_telegram with the path the item is downloaded to.
CallUpload(t, item) ==
    /\ tasks[t].pc = "none"
    /\ LET tk == [Idle EXCEPT !.caller = "direct", !.item = item,
                              !.file_path = ScratchPath(item)]
           r == upload_to_telegram(tk, scratch)
       IN  /\ tasks' = [tasks EXCEPT ![t] = r.task]
           /\ scratch' = r.scratch
    /\ UNCHANGED <<storeVars, locks, active_flows, world>>

\* upload_to_telegram, lines 81-84: the notice that the file is too large has
\* been sent, or has raised; False is returned, or the exception propagates.
\* The try statement has not been entered: its finally clause does not run.
UploadSkipNotified(t, raised) ==
    /\ tasks[t].pc = "ul_skip_notify"
    /\ LET r == UploadConcluded(tasks[t], scratch,
                                IF raised THEN "Exception" ELSE "False")
       IN  /\ tasks' = [tasks EXCEPT ![t] = r.task]
           /\ scratch' = r.scratch
    /\ UNCHANGED <<storeVars, locks, active_flows, world>>

\* upload_to_telegram, lines 86-116: send_document and the progress callbacks
\* have returned (True is returned, the finally clause removing the file), or
\* one of them has raised: the except clause awaits its send_message.
UploadSent(t, raised) ==
    /\ tasks[t].pc = "uploading"
    /\ IF raised
       THEN /\ tasks' = [tasks EXCEPT ![t] = [@ EXCEPT !.pc = "ul_fail_notify"]]
            /\ UNCHANGED scratch
       ELSE LET r == UploadConcluded(tasks[t],
                        RemoveIfExists(scratch, tasks[t].file_path), "True")
            IN  /\ tasks' = [tasks EXCEPT ![t] = r.task]
                /\ scratch' = r.scratch
    /\ UNCHANGED <<storeVars, locks, active_flows, world>>

\* upload_to_telegram, lines 106-116: the send_message of the except clause
\* has returned (False is returned) or raised (the exception propagates); in
\* both cases the finally clause removes the file.
UploadFailNotified(t, raised) ==
    /\ tasks[t].pc = "ul_fail_notify"
    /\ LET r == UploadConcluded(tasks[t],
                    RemoveIfExists(scratch, tasks[t].file_path),
                    IF raised THEN "Exception" ELSE "False")
       IN  /\ tasks' = [tasks EXCEPT ![t] = r.task]
           /\ scratch' = r.scratch
    /\ UNCHANGED <<storeVars, locks, active_flows, world>>

\* No messages arrive: the engine is called directly.
EngineWorld ==
    [sources |-> {}, commanders |-> {}, items |-> Catalogue, longest |-> 0,
     errors |-> {}]

InitEngine == InitBot(EngineWorld, 1..MaxTasks)

NextEngine ==
    \/ \E t \in Slots, item \in world.items :
          \E ch \in StartChoices(item.size) : CallDownload(t, item, ch)
    \/ \E t \in Slots : DownloadStep(t)
    \/ \E t \in Slots, item \in world.items : CallUpload(t, item)
    \/ \E t \in Slots, raised \in BOOLEAN : UploadSkipNotified(t, raised)
    \/ \E t \in Slots, raised \in BOOLEAN : UploadSent(t, raised)
    \/ \E t \in Slots, raised \in BOOLEAN : UploadFailNotified(t, raised)
    \/ \E t \in Slots : Reap(t)

SpecEngine == InitEngine /\ [][NextEngine]_vars

\* -------------------------------------------------- SpecChunks' actions

\* The files downloaded chunk by chunk: an empty one, files of one, two and
\* four chunks, and one of more than a hundred chunks, all of one name.
ChunkedFiles ==
    {Item(<<"1">>, <<"a">>, size, "binary") : size \in {0, 4, 8, 20, 600}}

\* download_gdrive_file called with a progress callback, up to the chunk
\* loop (lines 25-50): a file of the expected size at the path is returned
\* as it is, else the file is opened and truncated.
CallChunked(t, item) ==
    /\ tasks[t].pc = "none"
    /\ LET path == ScratchPath(item)
           tk == [Idle EXCEPT !.caller = "chunks", !.item = item,
                              !.file_path = path, !.calls = {"download"}]
       IN  IF AlreadyComplete(scratch, path, item.size)
           THEN /\ tasks' = [tasks EXCEPT ![t] =
                       [tk EXCEPT !.pc = "returned", !.ret = "path",
                                  !.matched = TRUE]]
                /\ UNCHANGED scratch
           ELSE /\ tasks' = [tasks EXCEPT ![t] = [tk EXCEPT !.pc = "chunking"]]
                /\ scratch' = [scratch EXCEPT ![path] = 0]
    /\ UNCHANGED <<storeVars, locks, active_flows, world>>

\* One turn of the while loop (lines 52-61): next_chunk raises HttpError, or
\* returns the next chunk, after which progress_callback is or is not called.
NextChunk(t, elapsed, raised) ==
    /\ tasks[t].pc = "chunking"
    /\ LET tk == [tasks[t] EXCEPT !.calls = @ \cup {"next_chunk"}]
           got == ChunkEnd(tk.got, tk.item.size, 1)
       IN  IF raised
           THEN /\ tasks' = [tasks EXCEPT ![t] =
                       [tk EXCEPT !.pc = "returned", !.fault = "HttpError",
                                  !.ret = "ConnectionError"]]
                /\ scratch' = RemoveIfExists(scratch, tk.file_path)
           ELSE /\ tasks' = [tasks EXCEPT ![t] =
                       [tk EXCEPT !.got = got,
                                  !.progress = AfterChunk(@, got, tk.item.size,
                                                          elapsed),
                                  !.pc = IF got = tk.item.size
                                         THEN "final_progress"
                                         ELSE "chunking"]]
                /\ scratch' = WriteUpTo(scratch, tk.file_path, got)
    /\ UNCHANGED <<storeVars, locks, active_flows, world>>

\* Lines 63-66: the final call of progress_callback, and the path returned.
FinalProgress(t) ==
    /\ tasks[t].pc = "final_progress"
    /\ tasks' = [tasks EXCEPT ![t] =
           [@ EXCEPT !.pc = "returned", !.ret = "path",
                     !.progress = AfterFinal(@)]]
    /\ UNCHANGED <<storeVars, locks, active_flows, scratch, world>>

\* Nobody writes; one caller downloads file after file.
ChunkWorld ==
    [sources |-> {}, commanders |-> {}, items |-> ChunkedFiles, longest |-> 0,
     errors |-> {}]

InitChunks == InitBot(ChunkWorld, {1})

NextChunks ==
    \/ \E t \in Slots, item \in world.items : CallChunked(t, item)
    \/ \E t \in Slots, elapsed \in BOOLEAN, raised \in BOOLEAN :
          NextChunk(t, elapsed, raised)
    \/ \E t \in Slots : FinalProgress(t)
    \/ \E t \in Slots : Reap(t)

SpecChunks == InitChunks /\ [][NextChunks]_vars

\* --------------------------------------------------- SpecNames' actions

\* The display names and ids of remote files: any characters, a letter, the
\* dot, the slash and the underscore standing for them; an id has none but
\* letters, digits, - and _.
DisplayNames == SeqsUpTo({"a", ".", "/", "_"}, MaxName)
FileIds == {<<"1">>, <<"2">>}

\* Lines 27-33 of download_gdrive_file for a name and an id: the path the
\* file is to be written to, below DOWNLOAD_DIR.
PathFor(t, file_name, file_id) ==
    /\ tasks[t].pc = "none"
    /\ tasks' = [tasks EXCEPT ![t] =
           [Idle EXCEPT !.pc = "returned", !.caller = "names",
                        !.item = Item(file_id, file_name, 1, "binary"),
                        !.file_path = safe_file_name(file_name, file_id)]]
    /\ UNCHANGED <<storeVars, locks, active_flows, scratch, world>>

\* Nobody writes; names are sanitized one after the other.
NamesWorld ==
    [sources |-> {}, commanders |-> {}, items |-> {}, longest |-> 0,
     errors |-> {}]

InitNames == InitBot(NamesWorld, {1})

NextNames ==
    \/ \E t \in Slots, file_name \in DisplayNames, file_id \in FileIds :
          PathFor(t, file_name, file_id)
    \/ \E t \in Slots : Reap(t)

SpecNames == InitNames /\ [][NextNames]_vars

\* ---------------------------------------------------- SpecEnum's actions

\* get_drive_items_from_link called for a link into the world's Drive; the
\* listing of the folder failed, if it is called, raises.
Enumerate(t, file_id, status, failed) ==
    /\ tasks[t].pc = "none"
    /\ LET d == world.drive
           metaOk == file_id # NoFileId
                     => get_file_metadata(d, file_id, status) # None
           listOk == (file_id # NoFileId /\ status = 200)
                     => ~ListingRaises(d, file_id, failed)
           r == get_drive_items_from_link(d, file_id, metaOk, listOk)
       IN  tasks' = [tasks EXCEPT ![t] =
              [Idle EXCEPT !.pc = "returned", !.caller = "enum",
                           !.item = IF file_id = NoFileId \/ ~metaOk
                                    THEN NoItem
                                    ELSE Item(file_id, d[file_id].name,
                                              d[file_id].size,
                                              d[file_id].mimeType),
                           !.files = r.files, !.error_msg = r.error_msg,
                           !.origin = Origin(file_id, status, failed),
                           !.ret = IF r.error_msg = "none" THEN "files"
                                   ELSE "error"]]
    /\ UNCHANGED <<storeVars, locks, active_flows, scratch, world>>

\* Nobody writes; a link points into one of the Drives.
EnumWorld(d) ==
    [sources |-> {}, commanders |-> {}, items |-> {}, longest |-> 0,
     errors |-> {}, drive |-> d]

InitEnum == \E d \in Drives : InitBot(EnumWorld(d), {1})

NextEnum ==
    \/ \E t \in Slots, file_id \in DOMAIN world.drive \cup {NoFileId},
          status \in MetaStatuses,
          failed \in DOMAIN world.drive \cup {NoFileId} :
             Enumerate(t, file_id, status, failed)
    \/ \E t \in Slots : Reap(t)

SpecEnum == InitEnum /\ [][NextEnum]_vars

\* ---------------------------------------------------- the enumerator's claims

\* C12: every item the enumerator returns is a file, at whatever depth of
\* the folder tree it was found, and a link to a single item that is no
\* folder yields exactly that item, its path being its own name. (SpecEnum)
EnumeratorYieldsOnlyFiles ==
    \A t \in Slots :
        (tasks[t].caller = "enum" /\ tasks[t].ret = "files")
        => LET files == tasks[t].files
               link == tasks[t].item
           IN  /\ \A i \in 1..Len(files) :
                     /\ ~files[i].is_folder
                     /\ world.drive[files[i].id].mimeType # FolderMime
               /\ link.mimeType # FolderMime
                  => /\ Len(files) = 1
                     /\ files[1].id = link.id
                     /\ files[1].name = world.drive[link.id].name
                     /\ files[1].path = <<files[1].name>>

\* C12, its case: a folder link has yielded a file found two folders down.
DeepFileEnumerated ==
    \E t \in Slots :
        /\ tasks[t].caller = "enum"
        /\ tasks[t].ret = "files"
        /\ tasks[t].item.id = 0
        /\ \E i \in 1..Len(tasks[t].files) :
              LET f == tasks[t].files[i]
              IN  /\ world.drive[f.id].parent # 0
                  /\ world.drive[world.drive[f.id].parent].parent # 0

\* C13: the folder with the files b.txt and a.txt and the subfolder sub
\* holding c.txt enumerates to the paths a.txt, b.txt, sub/c.txt, in that
\* order. (SpecEnum)
ScenarioEnumeratesFilesFirst ==
    \A t \in Slots :
        (/\ tasks[t].caller = "enum"
         /\ tasks[t].ret = "files"
         /\ world.drive = ScenarioDrive
         /\ tasks[t].item.id = 0)
        => [i \in 1..Len(tasks[t].files) |-> tasks[t].files[i].path]
             = <<(<<"a.txt">>), (<<"b.txt">>), (<<"sub", "c.txt">>)>>

\* C14: for a folder link the enumerator returns, at every level, what the
\* subfolders yield, in name order and each expanded in the same way,
\* followed by the folder's own files in name order. (SpecEnum)
EnumerationIsFoldersThenFiles ==
    \A t \in Slots :
        (/\ tasks[t].caller = "enum"
         /\ tasks[t].ret = "files"
         /\ tasks[t].item.mimeType = FolderMime)
        => LET d == world.drive
               RECURSIVE ByName(_)
               ByName(S) ==
                   IF S = {} THEN <<>>
                   ELSE LET first == CHOOSE x \in S :
                                \A y \in S \ {x} : BeforeByName(d, x, y)
                        IN  <<first>> \o ByName(S \ {first})
               RECURSIVE Expected(_, _)
               RECURSIVE Each(_, _)
               Each(folders, path) ==
                   IF folders = <<>> THEN <<>>
                   ELSE Expected(Head(folders),
                                 Append(path, d[Head(folders)].name))
                        \o Each(Tail(folders), path)
               Expected(folder_id, path) ==
                   LET kids == Children(d, folder_id)
                       subs == ByName({k \in kids :
                                          d[k].mimeType = FolderMime})
                       own == ByName({k \in kids :
                                         d[k].mimeType # FolderMime})
                   IN  Each(subs, path)
                       \o [i \in 1..Len(own) |->
                              ItemDetails(d, own[i],
                                          Append(path, d[own[i]].name), FALSE)]
           IN  tasks[t].files
                 = Expected(tasks[t].item.id, <<tasks[t].item.name>>)

\* C14, its case: a folder that holds a file whose name comes before that of
\* a subfolder which itself holds a file has been enumerated.
MixedFolderEnumerated ==
    \E t \in Slots :
        /\ tasks[t].caller = "enum"
        /\ tasks[t].ret = "files"
        /\ tasks[t].item.id = 0
        /\ LET d == world.drive
           IN  \E f, g, h \in DOMAIN d :
                 /\ d[f].parent = 0 /\ d[f].mimeType # FolderMime
                 /\ d[g].parent = 0 /\ d[g].mimeType = FolderMime
                 /\ BeforeByName(d, f, g)
                 /\ d[h].parent = g /\ d[h].mimeType # FolderMime

\* C29: the enumeration of a folder link returns every file below the
\* folder, at whatever depth and on whatever page of its folder's listing,
\* exactly once, and nothing else, the path of each being the names from the
\* linked folder down to the file. (SpecEnum)
EveryFileEnumeratedOnce ==
    \A t \in Slots :
        (/\ tasks[t].caller = "enum"
         /\ tasks[t].ret = "files"
         /\ tasks[t].item.mimeType = FolderMime)
        => LET d == world.drive
               link == tasks[t].origin.link
               files == tasks[t].files
               RECURSIVE Below(_)
               Below(i) == i # link /\ i # 0
                           /\ (d[i].parent = link \/ Below(d[i].parent))
               RECURSIVE Names(_)
               Names(i) == IF i = link THEN <<d[i].name>>
                           ELSE Append(Names(d[i].parent), d[i].name)
               leaves == {i \in DOMAIN d :
                             Below(i) /\ d[i].mimeType # FolderMime}
           IN  /\ Len(files) = Cardinality(leaves)
               /\ \A f \in leaves :
                     \E i \in 1..Len(files) :
                        /\ files[i].id = f
                        /\ files[i].path = Names(f)
                        /\ \A j \in 1..Len(files) :
                              files[j].id = f => j = i

\* C29, its case: a folder whose listing takes more than one page has been
\* enumerated, a file on a later page and a file of a subfolder among its
\* items.
SecondPageEnumerated ==
    \E t \in Slots :
        /\ tasks[t].caller = "enum"
        /\ tasks[t].ret = "files"
        /\ tasks[t].origin.link = 0
        /\ LET d == world.drive
               listing == InOrder(d, Children(d, 0))
           IN  /\ Len(listing) > PageSize
               /\ d[listing[Len(listing)]].mimeType # FolderMime
               /\ \E i \in 1..Len(tasks[t].files) :
                     tasks[t].files[i].id = listing[Len(listing)]
               /\ \E i \in 1..Len(tasks[t].files) :
                     d[tasks[t].files[i].id].parent # 0

\* C21: when the metadata fetch of a link fails as unauthorized (401 or 403),
\* the error returned is one on which the handler, for a user without
\* credentials, suggests logging in. (SpecEnum)
UnauthorizedMetadataSuggestsLogin ==
    \A t \in Slots :
        (/\ tasks[t].caller = "enum"
         /\ tasks[t].error_msg = "metadata"
         /\ tasks[t].origin.status \in {401, 403})
        => SuggestsLogin(tasks[t].error_msg, None)

\* C22: a job whose enumeration failed (no id in the link, the metadata
\* fetch failed, or the listing of the folder or of a folder below it
\* raised) or yielded no file makes no download or upload call: the handler
\* reports the error, or that there is nothing to process, and by its next
\* step the job has ended, no file visited and the scratch directory
\* untouched. (SpecLink)
FailedEnumerationEndsTheJob ==
    [][\A t \in Slots :
          LET tk == tasks[t]
              nx == tasks'[t]
              Enumerated(k) == /\ k.caller = "handler"
                               /\ k.pc \in JobPcs \ {"analyzing"}
              Failed(k) == \/ k.origin.link = NoFileId
                           \/ k.origin.status # 200
                           \/ k.origin.failed # NoFileId
                           \/ k.files = <<>>
          IN  /\ (Enumerated(nx) /\ Failed(nx))
                 => /\ nx.pc = "enum_notify"
                    /\ nx.calls = {}
                    /\ nx.idx = 0
                    /\ nx.told \in {{"error"}, {"error", "try_login"},
                                    {"nothing"}}
                    /\ nx.told = {"nothing"} <=> nx.error_msg = "none"
              /\ (Enumerated(tk) /\ Failed(tk) /\ nx # tk)
                 => /\ nx.pc = "ended"
                    /\ nx.idx = 0
                    /\ scratch' = scratch]_vars

\* C22, its case: the listing of a folder below the linked folder has raised
\* after a file of a folder listed before it had been listed, and the error
\* is being reported.
ListingFailedAfterFiles ==
    \E t \in Slots :
        LET tk == tasks[t]
            d == world.drive
        IN  /\ "drive" \in DOMAIN world
            /\ tk.caller = "handler"
            /\ tk.pc = "enum_notify"
            /\ tk.origin.failed # NoFileId
            /\ tk.origin.failed # tk.origin.link
            /\ \E f, g \in DOMAIN d :
                  /\ d[f].mimeType # FolderMime
                  /\ d[f].parent = g
                  /\ d[g].parent = tk.origin.link
                  /\ d[tk.origin.failed].parent = tk.origin.link
                  /\ Before(d, g, tk.origin.failed)

\* --------------------------------------------------- SpecStore's actions

StoreSave(u, c) ==
    /\ tokenFile' = save_user_credentials(tokenFile, u, c)
    /\ prev' = last
    /\ last' = [op |-> "save", user |-> u, arg |-> c, at |-> now,
                corrupt |-> tokenFile.state = "corrupt"]
    /\ UNCHANGED <<now, botVars>>

StoreLoad(u, refreshOk) ==
    LET r == load_user_credentials(tokenFile, u, now, refreshOk)
    IN  /\ tokenFile' = r.file
        /\ prev' = last
        /\ last' = [op |-> "load", user |-> u, ret |-> r.ret, at |-> now,
                    before |-> tokenFile.tokens[u], after |-> r.file.tokens[u],
                    raised |-> r.raised,
                    corrupt |-> tokenFile.state = "corrupt"]
        /\ UNCHANGED <<now, botVars>>

StoreDelete(u) ==
    LET r == delete_user_credentials(tokenFile, u)
    IN  /\ tokenFile' = r.file
        /\ prev' = last
        /\ last' = [op |-> "delete", user |-> u, ok |-> r.ret, at |-> now,
                    raised |-> r.raised,
                    corrupt |-> tokenFile.state = "corrupt"]
        /\ UNCHANGED <<now, botVars>>

\* Time passes.
Tick ==
    /\ now < MaxTime
    /\ now' = now + 1
    /\ UNCHANGED <<tokenFile, last, prev, botVars>>

\* The file is damaged from outside the program (a torn write, an editor).
CorruptStore ==
    /\ tokenFile.state # "corrupt"
    /\ tokenFile' = CorruptFile
    /\ prev' = last
    /\ last' = [op |-> "corrupt", at |-> now]
    /\ UNCHANGED <<now, botVars>>

InitStore ==
    /\ tokenFile = MissingFile
    /\ now = 0
    /\ last = NoCall
    /\ prev = NoCall
    /\ tasks = [t \in 1..MaxTasks |-> Idle]
    /\ locks = {}
    /\ active_flows = {}
    /\ scratch = EmptyScratch
    /\ world = ConcurrentWorld

NextStore ==
    \/ \E u \in Users, c \in FlowCredentials : StoreSave(u, c)
    \/ \E u \in Users : \E refreshOk \in RefreshAnswers(tokenFile, u, now) :
          StoreLoad(u, refreshOk)
    \/ \E u \in Users : StoreDelete(u)
    \/ Tick
    \/ CorruptStore

SpecStore == InitStore /\ [][NextStore]_vars

\* ------------------------------------------- the credential store's claims

\* C8: every credential that load returns to its caller is not expired: the
\* provider still accepts its access token at the instant of the call.
\* (SpecStore)
LoadReturnsNoExpiredCredential ==
    (last.op = "load" /\ last.ret # None) => TokenAccepted(last.ret, last.at)

\* C9: when load finds a stored credential whose access token has expired and
\* which has a refresh token, then either the credential returned is a fresh
\* one and is what the file now holds for the user, or absent is returned and
\* the file holds nothing for the user. (SpecStore)
ExpiredCredentialRefreshedOrDeleted ==
    (/\ last.op = "load"
     /\ last.before # None
     /\ ~TokenAccepted(last.before, last.at)
     /\ last.before.refresh_token # NoToken)
    => \/ /\ last.ret # None
          /\ TokenAccepted(last.ret, last.at)
          /\ last.after = CredentialDict(last.ret)
       \/ /\ last.ret = None
          /\ last.after = None

\* C16: a call of save, load or delete that finds the token file corrupted
\* completes without raising and does what it would do with an empty store:
\* load returns absent, delete returns false, and after save the file holds
\* the new credential and nothing else. (SpecStore)
CorruptStoreIsTakenAsEmpty ==
    (last.op \in {"save", "load", "delete"} /\ last.corrupt)
    => CASE last.op = "load" -> ~last.raised /\ last.ret = None
         [] last.op = "delete" -> ~last.raised /\ last.ok = FALSE
         [] OTHER ->
              tokenFile = JsonFile([NoTokens EXCEPT ![last.user] =
                                       CredentialDict(last.arg)])

\* C17: with a well-formed token file, a call of save, delete or load for
\* user u leaves the stored credential of every other user as it was.
\* (SpecStore)
OtherUsersEntriesAreKept ==
    [][(/\ last' # last
        /\ last'.op \in {"save", "load", "delete"}
        /\ tokenFile.state = "json")
       => /\ tokenFile'.state = "json"
          /\ \A v \in Users \ {last'.user} :
                tokenFile'.tokens[v] = tokenFile.tokens[v]]_vars

\* C17, its case: a credential has been saved for one user while the file
\* held, and still holds, a credential of the other.
SavedNextToAnotherUser ==
    /\ last.op = "save"
    /\ prev.op = "save"
    /\ prev.user # last.user
    /\ tokenFile.state = "json"
    /\ tokenFile.tokens[prev.user] = CredentialDict(prev.arg)
    /\ tokenFile.tokens[last.user] = CredentialDict(last.arg)

\* C10: save followed immediately by load for the same user, the credential
\* saved not being expired, returns a credential equal to the saved one in
\* every field, the expiry instant included. (SpecStore)
SaveLoadRoundTrip ==
    (/\ prev.op = "save"
     /\ last.op = "load"
     /\ last.user = prev.user
     /\ last.at = prev.at
     /\ ~Expired(prev.arg, prev.at))
    => last.ret = prev.arg

\* C23: a job looks the credentials up once, with the enumeration and before
\* any download; what the size gate and download_gdrive_file are given for a
\* file is what that lookup returned; and no step of any handler, a logout,
\* status, login or OAuth code of the same user included, changes the
\* credentials of a job under way. (Spec)
JobKeepsItsCredentials ==
    [][\A t \in Slots :
          LET tk == tasks[t]
              nx == tasks'[t]
          IN  /\ InJob(nx)
                 => /\ nx.lookups = IF nx.pc = "analyzing" THEN 0 ELSE 1
                    /\ nx.calls # {} => nx.lookups = 1
                    /\ nx.pc \in FilePcs \ {"preparing"}
                       => nx.used = nx.credentials
              /\ (InJob(tk) /\ tk.pc # "analyzing" /\ InJob(nx))
                 => nx.credentials = tk.credentials]_vars

\* C23, its case: a job that loaded credentials is downloading with them
\* after the user's credentials were removed from the store.
DownloadingAfterLogout ==
    \E t \in Slots :
        /\ tasks[t].caller = "handler"
        /\ tasks[t].pc = "downloading"
        /\ tasks[t].idx >= 1
        /\ tasks[t].credentials # None
        /\ tasks[t].used = tasks[t].credentials
        /\ tokenFile.state = "json"
        /\ tokenFile.tokens[tasks[t].user] = None

CountersAddUpAtEveryBoundary ==
    [][\A t \in Slots :
          LET tk == tasks[t]
              nx == tasks'[t]
              Sum(k) == k.successful_uploads + k.failed_uploads
              PassedOn == /\ tk.caller = "handler"
                          /\ tk.pc \in FilePcs
                          /\ \/ nx.pc \in FilePcs /\ nx.idx = tk.idx + 1
                             \/ nx.pc = "summary"
          IN  /\ (nx.caller = "handler" /\ nx.pc \in FilePcs)
                 => Sum(nx) = nx.idx - 1
              /\ PassedOn
                 => \/ /\ nx.successful_uploads = tk.successful_uploads + 1
                       /\ nx.failed_uploads = tk.failed_uploads
                    \/ /\ nx.successful_uploads = tk.successful_uploads
                       /\ nx.failed_uploads = tk.failed_uploads + 1
              /\ (nx.caller = "handler" /\ nx.pc = "summary")
                 => Sum(nx) = Len(nx.files)]_vars

\* C26, its case: the summary of a job of two files is being sent, the last
\* file having failed in its download.
SummaryOfTwoFiles ==
    \E t \in Slots :
        /\ tasks[t].caller = "handler"
        /\ tasks[t].pc = "summary"
        /\ Len(tasks[t].files) = 2
        /\ tasks[t].idx = 2
        /\ tasks[t].err = "conn"
        /\ tasks[t].successful_uploads + tasks[t].failed_uploads = 2

\* C27: when a job has ended, the scratch directory holds no file: with one
\* job at a time, whatever is there was written by a job that has ended.
\* (SpecJob)
EndedJobLeavesNoScratchFile ==
    \A t \in Slots :
        (tasks[t].caller = "handler" /\ tasks[t].pc = "ended")
        => \A p \in ScratchNames : scratch[p] = Absent

\* C28: within one download every call of the progress callback passes a
\* percentage in 0..100 that is not below that of the call before; a call
\* inside the chunk loop follows a chunk that raised the percentage; a
\* download that returns after reading chunks has made exactly one final
\* call, its last, with 100; and a download that returns the file already
\* there has made no call. (SpecChunks)
ProgressIsMonotoneAndEndsOnce ==
    [][\A t \in Slots :
          LET tk == tasks[t]
              nx == tasks'[t]
              p == tk.progress
              q == nx.progress
              Called == <<q.last, q.final, q.finals>>
                          # <<p.last, p.final, p.finals>>
          IN  (nx.caller = "chunks" /\ nx # tk)
              => /\ Called
                    => /\ q.last \in 0..100
                       /\ q.last >= p.last
                       /\ ~q.final
                          => /\ q.last > p.downloaded_percentage
                             /\ q.last = Percentage(nx.got, nx.item.size)
                       /\ p.finals = 0
                 /\ (nx.pc = "returned" /\ nx.ret = "path"
                       /\ "next_chunk" \in nx.calls)
                    => /\ q.finals = 1
                       /\ q.final
                       /\ q.last = 100
                 /\ (nx.pc = "returned" /\ "next_chunk" \notin nx.calls)
                    => q = NoProgress]_vars

\* C28, its case: a download of more than a hundred chunks has returned; its
\* first chunk left the percentage at 0 and was not reported.
LongDownloadReturned ==
    \E t \in Slots :
        /\ tasks[t].caller = "chunks"
        /\ tasks[t].pc = "returned"
        /\ tasks[t].ret = "path"
        /\ tasks[t].item.size > 100 * ChunkSize
        /\ tasks[t].progress.finals = 1

\* C30: the name download_gdrive_file joins to DOWNLOAD_DIR is that of a
\* file directly in the directory: it is not empty, holds no path separator,
\* and is neither . nor .., which name the directory itself and its parent.
\* (SpecNames)
ScratchPathIsAChildOfTheDirectory ==
    \A t \in Slots :
        (tasks[t].caller = "names" /\ tasks[t].pc = "returned")
        => LET name == tasks[t].file_path
           IN  /\ name # <<>>
               /\ \A i \in 1..Len(name) : name[i] # "/"
               /\ name \notin {<<".">>, <<".", ".">>}

\* C18: the lock the job took is held in every state from link analysis
\* through the loop to the summary, and the step by which the job ends, by
\* return or by an exception escaping the handler, leaves that lock free.
\* (Spec)
LockHeldThroughoutJob ==
    [][\A t \in Slots :
          /\ InJob(tasks'[t]) => tasks'[t].chat \in locks'
          /\ (InJob(tasks[t]) /\ ~InJob(tasks'[t]))
             => /\ tasks'[t].pc = "ended"
                /\ tasks[t].chat \notin locks']_vars

\* C18, its case: a job has been ended by an exception in the middle of the
\* loop, and no lock is held.
JobEscapedAndLockFree ==
    \E t \in Slots :
        /\ tasks[t].pc = "ended"
        /\ tasks[t].how = "escaped"
        /\ tasks[t].idx >= 1
        /\ locks = {}

\* C19: a file whose download has returned a non-empty scratch file goes on
\* to an upload attempt: upload_to_telegram is called for it. (SpecJob)
DownloadedFileIsUploaded ==
    \A t \in Slots :
        (/\ tasks[t].caller = "handler"
         /\ tasks[t].ret = "path"
         /\ tasks[t].item.size > 0)
        => "upload" \in tasks[t].calls

NoJobEndsSilently ==
    \A t \in Slots :
        tasks[t].pc = "ended"
        => /\ tasks[t].how = "returned"
           /\ tasks[t].total > 0
              => tasks[t].summary /\ tasks[t].idx = tasks[t].total

\* ------------------------------------------------------- the engine's claims

\* C11: a call of download_gdrive_file that finds at the path a scratch file
\* whose size equals the expected size, an expected size of 0 included, reads
\* no chunk, and when it returns it returns that path. (SpecEngine)
MatchingScratchFileIsReused ==
    \A t \in Slots :
        (/\ tasks[t].caller = "direct"
         /\ "download" \in tasks[t].calls
         /\ tasks[t].matched)
        => /\ "next_chunk" \notin tasks[t].calls
           /\ tasks[t].pc = "returned" => tasks[t].ret \in {"path", "Exception"}

\* C7: whenever a call of upload_to_telegram has concluded, by returning or by
\* raising, the scratch file passed to it does not exist. (SpecEngine)
UploadLeavesNoScratchFile ==
    \A t \in Slots :
        (tasks[t].pc = "returned" /\ "upload" \in tasks[t].calls)
        => ~tasks[t].left

====
